---- MODULE Spec2Model ----
(***************************************************************************)
(* Model of whiplash's task lifecycle as the web build runs it: the        *)
(* in-memory store of src/utils/tauri.ts (mockTasks, the command bodies of *)
(* invoke, the simulated network delay and the 5-second completion timer)  *)
(* driven through the useClaudeCode hook (src/hooks/useClaudeCode.ts).     *)
(*                                                                         *)
(* Time is in milliseconds since 2024-01-01T00:00:00 local time, the day   *)
(* of the store's built-in tasks.  Timers run on time: a delayed step runs  *)
(* at its deadline, and the clock moves from one instant at which          *)
(* something becomes possible to the next, never past a pending deadline.  *)
(* Steps due at the same instant run in any order.  Everything a handler   *)
(* does between two awaits of a timer runs in one macrotask and is one     *)
(* action here.  Of the hook's refreshes, the one of the mount effect and  *)
(* those that end startTask, cancelTask and cleanupCompletedTasks are      *)
(* modelled in Spec; the 5-second setInterval refresh is left to           *)
(* SpecDriver, which keeps the mount effect and its cleanup.  SpecTauri is *)
(* the desktop build, where invoke tries the backend first and falls back  *)
(* to the store when the backend rejects.  SpecWeb is the web build with   *)
(* the worktree list mounted: useWorktrees, the task start of a worktree's *)
(* card and the overlap analysis of useOverlapAnalysis.                    *)
(* SpecPoll is the mounted hook with its interval while tasks are started *)
(* and completed; SpecTauriLive is the desktop build with a backend that   *)
(* may leave a command unanswered, under fairness; SpecOverlap is the      *)
(* overlap matrix with both analyses of useOverlapAnalysis; SpecRepo is    *)
(* the worktree list while the repository path changes; SpecTimeline is    *)
(* the playback of TimelineVisualization.                                  *)
(***************************************************************************)
EXTENDS Integers, Sequences, FiniteSets, TLC

\* ---------------------------------------------------------------- bounds
MaxOps == 2          \* hook calls issued in one behaviour
MaxInFlight == 2     \* hook calls in flight at once
MaxTicks == 2        \* ticks of the refresh interval in one behaviour
MaxEvents == 7       \* steps of the timeline in one behaviour

\* ------------------------------------------------------ program constants
DelayMin == 500            \* delay(500 + Math.random() * 1000)
DelaySpread == 1000        \* delay(500 + Math.random() * 1000)
TaskDuration == 5000       \* setTimeout(..., 5000)
Interval == 5000           \* setInterval(refreshTasks, 5000)
PlaybackInterval == 2000   \* setInterval(..., 2000) of the timeline
MockCommits == 5           \* mockCommits.length
OneHour == 3600000         \* 60 * 60 * 1000
Undefined == -1            \* JavaScript undefined, for an absent property
Task1Started == 43200000   \* 2024-01-01T12:00:00
Task2Started == 37800000   \* 2024-01-01T10:30:00
Task2Completed == 42300000 \* 2024-01-01T11:45:00

\* The store's objects are references into heap; 0 is "no object" (find
\* returned undefined).
NoRef == 0
\* An id no task carries (task ids are task-1, task-2 and task-<Date.now()>).
UnknownId == 0

\* useState<string | null>(null)
Null == "null"

CancelMarker == "Task cancelled by user"
CompletedLine == "Task completed successfully!"
TypeErrorMessage == "Cannot read properties of undefined (reading 'id')"

\* Inputs of startTask: <<workingDirectory, description>>.
StartInputs == {<<"/tmp/frontend-feature", "Fix login bug">>}
\* The delays invoke draws: the least one and the middle of the range.
Delays == {DelayMin, DelayMin + DelaySpread \div 2}
\* The clock's first value: 12:30:00, the latest instant of the built-in data.
InitNows == {Task2Completed + 2700000}

VARIABLES
    heap,        \* every task object ever created, by reference
    mockTasks,   \* the store: the array of references to task objects
    timers,      \* pending completion timers: [task, due]
    now,         \* Date.now()
    calls,       \* the hook calls in flight, in the order they were made
    tasks,       \* useClaudeCode: useState tasks
    loading,     \* useClaudeCode: useState loading
    error,       \* useClaudeCode: useState error
    returned,    \* the hook call that settled in the last step, if any
    lastCleanup, \* the last cleanup command: when it ran, completions since
    issued,      \* hook calls issued so far
    driver,      \* useClaudeCode: the mount effect and its interval timer
    tauri,       \* tauriInvoke is set: the desktop build
    backend,     \* the task registry behind tauriInvoke
    mockWorktrees,     \* the store: the array of worktrees
    worktrees,         \* useWorktrees: useState worktrees
    worktreesLoading,  \* useWorktrees: useState loading
    worktreesError,    \* useWorktrees: useState error
    overlapAnalysis,   \* useOverlapAnalysis: useState overlapAnalysis
    overlapLoading,    \* useOverlapAnalysis: useState loading
    overlapError,      \* useOverlapAnalysis: useState error
    dependencies,      \* useOverlapAnalysis: useState dependencies
    repoPath,          \* App: useState repoPath
    timeline,          \* TimelineVisualization: its state and its interval
    lastCommand        \* the last command that ran, if any

\* The state of the task store and of useClaudeCode.
taskVars == <<heap, mockTasks, timers, tasks, loading, error, lastCleanup>>

\* The state of the worktree store, of useWorktrees and of useOverlapAnalysis.
worktreeVars == <<mockWorktrees, worktrees, worktreesLoading, worktreesError>>

overlapVars == <<overlapAnalysis, overlapLoading, overlapError, dependencies>>

\* The state of App and of TimelineVisualization.
appVars == <<repoPath, timeline>>

\* What the steps of the task store and of the calls of useClaudeCode in web
\* mode leave alone.
beyondTasks == <<driver, tauri, appVars, backend, worktreeVars, overlapVars, lastCommand>>

vars == <<heap, mockTasks, timers, now, calls, tasks, loading, error,
          lastCleanup, issued, driver, tauri, appVars, backend, worktreeVars,
          overlapVars>>

\* The positions of the calls in flight.
Slots == 1..Len(calls)

\* ------------------------------------------------------------- JavaScript
\* obj.name: the property's value, undefined when the object has none.
Field(obj, name) == IF name \in DOMAIN obj THEN obj[name] ELSE Undefined

\* obj.name = value: sets the property, creating it when absent.
SetField(obj, name, value) ==
    [n \in DOMAIN obj \cup {name} |-> IF n = name THEN value ELSE obj[n]]

\* array.splice(i, 1), with i counted from 1.
Splice(list, i) == SubSeq(list, 1, i - 1) \o SubSeq(list, i + 1, Len(list))

\* ----------------------------------------------------------------- store
InitialHeap ==
    << [id |-> 1,
        description |-> "Implement user authentication components",
        status |-> "running",
        startedAt |-> Task1Started,
        output |-> <<"Starting task...", "Creating Login component",
                     "Adding form validation", "Implementing auth hooks">>,
        workingDirectory |-> "/tmp/frontend-feature"],
       [id |-> 2,
        description |-> "Add JWT authentication endpoints",
        status |-> "completed",
        startedAt |-> Task2Started,
        completedAt |-> Task2Completed,
        output |-> <<"Task completed successfully", "Added /auth/login endpoint",
                     "Added /auth/refresh endpoint", "Updated user types">>,
        workingDirectory |-> "/tmp/backend-api"] >>

\* mockTasks.find(t => t.id === taskId): the first match, or undefined.
FindTask(list, h, taskId) ==
    LET hits == {i \in 1..Len(list) : h[list[i]].id = taskId}
    IN  IF hits = {} THEN NoRef
        ELSE list[CHOOSE i \in hits : \A j \in hits : i <= j]

\* start_claude_task queueing the task instead of running it.
NewTaskPending(clock, description, workingDirectory) ==
    [id |-> clock,
     description |-> description,
     status |-> "pending",
     startedAt |-> clock,
     output |-> <<"Task started...", "Analyzing codebase...">>,
     workingDirectory |-> workingDirectory]

\* The object start_claude_task builds.
NewTask(clock, description, workingDirectory) ==
    [id |-> clock,
     description |-> description,
     status |-> "running",
     startedAt |-> clock,
     output |-> <<"Task started...", "Analyzing codebase...">>,
     workingDirectory |-> workingDirectory]

\* The completion timer's callback forgetting completedAt.
CompleteTaskUndated(obj, clock) ==
    LET a == SetField(obj, "status", "completed")
    IN  SetField(a, "output", Append(obj.output, CompletedLine))

\* The completion timer's callback, on the object it closed over.
CompleteTask(obj, clock) ==
    LET a == SetField(obj, "status", "completed")
        b == SetField(a, "completedAt", clock)
    IN  SetField(b, "output", Append(obj.output, CompletedLine))

\* cancel_claude_task keeping the completedAt the object had.
CancelFoundUndated(obj, clock) ==
    LET a == SetField(obj, "status", "failed")
    IN  SetField(a, "output", Append(obj.output, CancelMarker))

\* What cancel_claude_task does to the object it found.
CancelFound(obj, clock) ==
    LET a == SetField(obj, "status", "failed")
        b == SetField(a, "completedAt", clock)
    IN  SetField(b, "output", Append(obj.output, CancelMarker))

\* The test of the cleanup loop taking a task of exactly one hour too.
RemovableFromOneHour(obj, oneHourAgo) ==
    /\ obj.status = "completed"
    /\ Field(obj, "completedAt") # Undefined
    /\ Field(obj, "completedAt") <= oneHourAgo

\* The test of the cleanup loop.
Removable(obj, oneHourAgo) ==
    /\ obj.status = "completed"
    /\ Field(obj, "completedAt") # Undefined
    /\ Field(obj, "completedAt") < oneHourAgo

\* for (let i = mockTasks.length - 1; i >= 0; i--) ... splice(i, 1)
RECURSIVE CleanupLoop(_, _, _, _)
CleanupLoop(list, h, i, oneHourAgo) ==
    IF i < 1 THEN list
    ELSE IF Removable(h[list[i]], oneHourAgo)
         THEN CleanupLoop(Splice(list, i), h, i - 1, oneHourAgo)
         ELSE CleanupLoop(list, h, i - 1, oneHourAgo)

\* The cleanup loop running forwards: for (let i = 0; i < length; i++), which
\* steps over the task that follows a removed one.
RECURSIVE CleanupLoopForwards(_, _, _, _)
CleanupLoopForwards(list, h, i, oneHourAgo) ==
    IF i > Len(list) THEN list
    ELSE IF Removable(h[list[i]], oneHourAgo)
         THEN CleanupLoopForwards(Splice(list, i), h, i + 1, oneHourAgo)
         ELSE CleanupLoopForwards(list, h, i + 1, oneHourAgo)

CleanupTasksForwards(list, h, clock) ==
    CleanupLoopForwards(list, h, 1, clock - OneHour)

\* The store after cleanup_completed_claude_tasks at the given clock value.
CleanupTasks(list, h, clock) == CleanupLoop(list, h, Len(list), clock - OneHour)

\* ------------------------------------------------------------------ hook
\* The boundary mapping of one task handing every task on as running.
MapTaskAsRunning(h, ref) ==
    LET task == h[ref]
    IN  [id |-> Field(task, "id"),
         description |-> Field(task, "description"),
         status |-> "running",
         startedAt |-> Undefined,
         completedAt |-> Undefined,
         output |-> ref,
         workingDirectory |-> Field(task, "working_directory")]

\* refreshTasks / getTaskStatus: the boundary mapping of one task.  The
\* output array is handed on by reference: output holds the reference of the
\* task object owning the array.
MapTask(h, ref) ==
    LET task == h[ref]
    IN  [id |-> Field(task, "id"),
         description |-> Field(task, "description"),
         status |-> Field(task, "status"),
         startedAt |-> IF Field(task, "started_at") # Undefined
                       THEN Field(task, "started_at") ELSE Undefined,
         completedAt |-> IF Field(task, "completed_at") # Undefined
                         THEN Field(task, "completed_at") ELSE Undefined,
         output |-> ref,
         workingDirectory |-> Field(task, "working_directory")]

\* result.map(...) over the listed store.
MapTasks(list, h) == [i \in 1..Len(list) |-> MapTask(h, list[i])]

\* getTaskStatus reading result?.id: no throw, a task of undefined fields.
GetTaskStatusLenient(h, result) ==
    IF result = NoRef
    THEN [outcome |-> "resolved", message |-> "",
          task |-> <<[id |-> Undefined, description |-> Undefined,
                      status |-> Undefined, startedAt |-> Undefined,
                      completedAt |-> Undefined, output |-> NoRef,
                      workingDirectory |-> Undefined]>>]
    ELSE [outcome |-> "resolved", message |-> "", task |-> <<MapTask(h, result)>>]

\* getTaskStatus after invoke returned result: reading result.id throws a
\* TypeError when result is undefined, and the catch rethrows its message.
GetTaskStatusOutcome(h, result) ==
    IF result = NoRef
    THEN [outcome |-> "rejected", message |-> TypeErrorMessage, task |-> <<>>]
    ELSE [outcome |-> "resolved", message |-> "", task |-> <<MapTask(h, result)>>]

\* A call before it is made; n numbers the consumer's calls.
Idle == [op |-> "idle", n |-> 0, phase |-> "idle", next |-> "idle",
         failed |-> FALSE, due |-> 0,
         taskId |-> UnknownId, workingDirectory |-> "", description |-> "",
         name |-> "", branch |-> "", filePaths |-> <<>>, repoPath |-> "",
         count |-> 0, found |-> FALSE, thenGet |-> FALSE, follow |-> FALSE,
         prev |-> Undefined]

NoReturn == [op |-> "none", n |-> 0, outcome |-> "none", taskId |-> UnknownId,
             count |-> 0, found |-> FALSE, follow |-> FALSE, message |-> "",
             task |-> <<>>]

\* Before any cleanup command has run.
NoCleanup == [at |-> Undefined, by |-> Undefined, completedSince |-> FALSE,
              returned |-> FALSE,
              inSuccession |-> FALSE, crossed |-> FALSE, count |-> 0]

\* The simulated network delay of invoke has elapsed for the call at position s.
Delayed(s) == now >= calls[s].due

\* invoke up to its first await, for the call at position s: of tauriInvoke
\* in the desktop build (phase tauri, to go on with the given phase), of the
\* delay in the web build.
Invoke(s, call, phase) ==
    IF tauri
    THEN calls' = [k \in Slots \cup {s} |->
                     IF k = s
                     THEN [call EXCEPT !.phase = "tauri", !.next = phase,
                                       !.due = now]
                     ELSE calls[k]]
    ELSE \E d \in Delays :
            calls' = [k \in Slots \cup {s} |->
                        IF k = s
                        THEN [call EXCEPT !.phase = phase, !.due = now + d]
                        ELSE calls[k]]

\* The call at position s has returned.
Settle(s) == calls' = Splice(calls, s)

\* The ids a caller can name: those of the tasks the hook last listed, and
\* one that was never assigned.
CallerIds == {tasks[i].id : i \in 1..Len(tasks)} \cup {UnknownId}

\* A consumer calls a hook function, which awaits invoke.
Issue(call) ==
    /\ issued < MaxOps
    /\ Len(calls) < MaxInFlight
    /\ Invoke(Len(calls) + 1, [call EXCEPT !.n = issued + 1], "cmd")
    /\ issued' = issued + 1
    /\ returned' = NoReturn

\* The call at position s goes on to refreshTasks: setLoading(true),
\* setError(null) and invoke of the list command.
AwaitRefresh(s, call) ==
    /\ loading' = TRUE
    /\ error' = Null
    /\ Invoke(s, call, "refresh")
    /\ returned' = NoReturn

\* No commit of the timeline is loaded and nothing plays.
NoTimeline == [commits |-> 0, index |-> 0, playing |-> FALSE,
               nextTick |-> Undefined, last |-> "none", events |-> 0]

\* App with a repository path entered and the timeline not mounted.
InitApp ==
    /\ repoPath = "/repo/a"
    /\ timeline = NoTimeline

\* mockWorktrees as the module builds it.
InitialWorktrees ==
    <<[id |-> "wt-1", name |-> "frontend-feature",
       branch |-> "feature/ui-components", path |-> "/tmp/frontend-feature",
       status |-> "active", createdAt |-> 36000000, lastActivity |-> 45000000],
      [id |-> "wt-2", name |-> "backend-api",
       branch |-> "feature/auth-api", path |-> "/tmp/backend-api",
       status |-> "active", createdAt |-> 34200000, lastActivity |-> 42300000]>>

\* No mount effect of useClaudeCode is running.
NoDriver == [active |-> FALSE, interval |-> FALSE, nextTick |-> Undefined,
             ticks |-> 0, left |-> 0]

\* No backend: the web build.
NoBackend == [tasks |-> <<>>, failed |-> 0]

NoCommand == [command |-> "none"]

\* The worktree store as built, useWorktrees and useOverlapAnalysis not
\* mounted.
InitWorktreesIdle ==
    /\ mockWorktrees = InitialWorktrees
    /\ worktrees = <<>>
    /\ worktreesLoading = TRUE
    /\ worktreesError = Null
    /\ overlapAnalysis = <<>>
    /\ overlapLoading = FALSE
    /\ overlapError = Null
    /\ dependencies = <<>>
    /\ lastCommand = NoCommand

\* The task store as built, useState's initial values of useClaudeCode, and
\* the mount effect's refreshTasks in flight.
InitClaudeCode ==
    /\ heap = InitialHeap
    /\ mockTasks = <<1, 2>>
    /\ timers = {}
    /\ now \in InitNows
    /\ \E d \in Delays :
          calls = <<[Idle EXCEPT !.op = "refreshTasks", !.phase = "refresh",
                                 !.due = now + d]>>
    /\ tasks = <<>>
    /\ loading = TRUE
    /\ error = Null
    /\ returned = NoReturn
    /\ lastCleanup = NoCleanup
    /\ issued = 0

\* The state after construction of the task monitor in the web build; the
\* interval of the mount effect is left to SpecDriver.
Init ==
    /\ InitClaudeCode
    /\ driver = NoDriver
    /\ tauri = FALSE
    /\ InitApp
    /\ backend = NoBackend
    /\ InitWorktreesIdle

\* The pending deadlines: of the delays of the calls in flight and of the
\* completion timers.  A call the backend will never answer has none.
Deadlines ==
    {calls[s].due : s \in {k \in Slots : calls[k].phase # "hung"}}
        \cup {t.due : t \in timers}

\* The instants at which completed tasks of the store turn one hour old.
Birthdays ==
    {heap[mockTasks[i]].completedAt + OneHour :
       i \in {j \in 1..Len(mockTasks) : heap[mockTasks[j]].status = "completed"}}

\* The instants at which something becomes possible: a deadline, a completed
\* task turns one hour old, or a command invoked now can run at the very
\* instant a completed task turns one hour old.
Instants ==
    Deadlines \cup Birthdays \cup {t - DelayMin : t \in Birthdays}

\* The clock moves on to a later instant, not past a pending deadline.
Advance ==
    /\ \E t \in Instants :
          /\ t > now
          /\ \A d \in Deadlines : t <= d
          /\ now' = t
    /\ returned' = NoReturn
    /\ UNCHANGED <<heap, mockTasks, timers, calls, tasks, loading, error,
                   lastCleanup, issued>>
    /\ UNCHANGED beyondTasks

\* setTimeout callback of start_claude_task.
TimerFire ==
    \E t \in timers :
        /\ now >= t.due
        /\ heap' = [heap EXCEPT ![t.task] = CompleteTask(heap[t.task], now)]
        /\ timers' = timers \ {t}
        /\ lastCleanup' = [lastCleanup EXCEPT !.completedSince = TRUE]
        /\ returned' = NoReturn
        /\ UNCHANGED <<mockTasks, now, calls, tasks, loading, error, issued>>
        /\ UNCHANGED beyondTasks

\* startTask up to its await of invoke's delay.
CallStartTask ==
    \E in \in StartInputs, thenGet \in BOOLEAN :
        /\ Issue([Idle EXCEPT !.op = "startTask",
                              !.workingDirectory = in[1],
                              !.description = in[2],
                              !.thenGet = thenGet])
        /\ error' = Null
        /\ UNCHANGED <<heap, mockTasks, timers, now, tasks, loading,
                       lastCleanup>>
        /\ UNCHANGED beyondTasks

\* start_claude_task, then startTask up to the delay of its refresh.
StartBody ==
    \E s \in Slots :
        /\ calls[s].op = "startTask" /\ calls[s].phase = "cmd"
        /\ Delayed(s)
        /\ heap' = Append(heap, NewTask(now, calls[s].description,
                                        calls[s].workingDirectory))
        /\ mockTasks' = Append(mockTasks, Len(heap) + 1)
        /\ timers' = timers \cup {[task |-> Len(heap) + 1,
                                   due |-> now + TaskDuration]}
        /\ AwaitRefresh(s, [calls[s] EXCEPT !.taskId = heap'[Len(heap')].id])
        /\ UNCHANGED <<now, tasks, lastCleanup, issued>>
        /\ UNCHANGED beyondTasks

\* cancelTask up to its await of invoke's delay.
CallCancelTask ==
    \E id \in CallerIds :
        /\ Issue([Idle EXCEPT !.op = "cancelTask", !.taskId = id])
        /\ error' = Null
        /\ UNCHANGED <<heap, mockTasks, timers, now, tasks, loading,
                       lastCleanup>>
        /\ UNCHANGED beyondTasks

\* The heap after cancel_claude_task for taskId.
CancelClaudeTask(list, h, clock, taskId) ==
    LET taskToCancel == FindTask(list, h, taskId)
    IN  IF taskToCancel # NoRef
        THEN [h EXCEPT ![taskToCancel] = CancelFound(h[taskToCancel], clock)]
        ELSE h

\* cancel_claude_task, then cancelTask up to the delay of its refresh.
CancelBody ==
    \E s \in Slots :
        /\ calls[s].op = "cancelTask" /\ calls[s].phase = "cmd"
        /\ Delayed(s)
        /\ heap' = CancelClaudeTask(mockTasks, heap, now, calls[s].taskId)
        /\ AwaitRefresh(s, [calls[s] EXCEPT !.found =
                              FindTask(mockTasks, heap, calls[s].taskId) # NoRef])
        /\ UNCHANGED <<mockTasks, timers, now, tasks, lastCleanup, issued>>
        /\ UNCHANGED beyondTasks

\* getTaskStatus up to its await of invoke's delay.
CallGetTaskStatus ==
    \E id \in CallerIds :
        /\ Issue([Idle EXCEPT !.op = "getTaskStatus", !.taskId = id])
        /\ UNCHANGED <<heap, mockTasks, timers, now, tasks, loading, error,
                       lastCleanup>>
        /\ UNCHANGED beyondTasks

\* get_claude_task_status, then getTaskStatus to its end.
GetBody ==
    \E s \in Slots :
        /\ calls[s].op = "getTaskStatus" /\ calls[s].phase = "cmd"
        /\ Delayed(s)
        /\ LET result == FindTask(mockTasks, heap, calls[s].taskId)
               end == GetTaskStatusOutcome(heap, result)
           IN  returned' = [op |-> "getTaskStatus", n |-> calls[s].n,
                            outcome |-> end.outcome,
                            taskId |-> calls[s].taskId, count |-> 0,
                            found |-> result # NoRef,
                            follow |-> calls[s].follow,
                            message |-> end.message, task |-> end.task]
        /\ Settle(s)
        /\ UNCHANGED <<heap, mockTasks, timers, now, tasks, loading, error,
                       lastCleanup, issued>>
        /\ UNCHANGED beyondTasks

\* cleanupCompletedTasks up to its await of invoke's delay.
CallCleanup ==
    /\ Issue([Idle EXCEPT !.op = "cleanupCompletedTasks",
                          !.prev = IF lastCleanup.returned
                                   THEN lastCleanup.at ELSE Undefined])
    /\ UNCHANGED <<heap, mockTasks, timers, now, tasks, loading, error,
                   lastCleanup>>
    /\ UNCHANGED beyondTasks

\* The cleanup call at position s was issued after the call of the cleanup command
\* that ran last had returned, and no task has completed since that command.
InSuccession(s) ==
    /\ calls[s].prev # Undefined
    /\ calls[s].prev = lastCleanup.at
    /\ ~lastCleanup.completedSince

\* A completed task of the store was at most one hour old when the last
\* cleanup command ran and is more than one hour old now.
Crossed ==
    \E i \in 1..Len(mockTasks) :
        LET task == heap[mockTasks[i]]
        IN  /\ task.status = "completed"
            /\ task.completedAt >= lastCleanup.at - OneHour
            /\ task.completedAt < now - OneHour

\* cleanup_completed_claude_tasks, then cleanupCompletedTasks up to the delay
\* of its refresh.
CleanupBody ==
    \E s \in Slots :
        /\ calls[s].op = "cleanupCompletedTasks" /\ calls[s].phase = "cmd"
        /\ Delayed(s)
        /\ mockTasks' = CleanupTasks(mockTasks, heap, now)
        /\ lastCleanup' =
               [at |-> now, by |-> calls[s].n, completedSince |-> FALSE,
                returned |-> FALSE,
                inSuccession |-> InSuccession(s), crossed |-> Crossed,
                count |-> Len(mockTasks) - Len(mockTasks')]
        /\ AwaitRefresh(s, [calls[s] EXCEPT !.count =
                                               Len(mockTasks) - Len(mockTasks')])
        /\ UNCHANGED <<heap, timers, now, tasks, issued>>
        /\ UNCHANGED beyondTasks

\* list_claude_tasks, then refreshTasks to its end and the hook function that
\* awaited it to its return; a caller of startTask that goes on with
\* getTaskStatus for the id returned calls it here.
ListBody ==
    \E s \in Slots :
        /\ calls[s].phase = "refresh"
        /\ Delayed(s)
        /\ tasks' = MapTasks(mockTasks, heap)
        /\ loading' = FALSE
        /\ returned' = [op |-> calls[s].op, n |-> calls[s].n,
                        outcome |-> "resolved",
                        taskId |-> calls[s].taskId, count |-> calls[s].count,
                        found |-> calls[s].found, follow |-> FALSE,
                        message |-> "", task |-> <<>>]
        /\ IF calls[s].op = "startTask" /\ calls[s].thenGet
           THEN Invoke(s, [Idle EXCEPT !.op = "getTaskStatus",
                                       !.n = calls[s].n,
                                       !.taskId = calls[s].taskId,
                                       !.follow = TRUE], "cmd")
           ELSE Settle(s)
        /\ lastCleanup' = IF calls[s].op = "cleanupCompletedTasks"
                              /\ lastCleanup.by = calls[s].n
                          THEN [lastCleanup EXCEPT !.returned = TRUE]
                          ELSE lastCleanup
        /\ UNCHANGED <<heap, mockTasks, timers, now, error, issued>>
        /\ UNCHANGED beyondTasks

Next ==
    \/ Advance
    \/ TimerFire
    \/ CallStartTask
    \/ StartBody
    \/ CallCancelTask
    \/ CancelBody
    \/ CallGetTaskStatus
    \/ GetBody
    \/ CallCleanup
    \/ CleanupBody
    \/ ListBody

Spec == Init /\ [][Next]_vars

\* ---------------------------------------------------- the desktop build
\* The id the backend gives its k-th task.
BackendId(k) == 100 + k

\* The task the backend's registry creates for startTask, as it is sent over
\* the boundary.
BackendTask(k, clock, description, workingDirectory) ==
    [id |-> BackendId(k),
     description |-> description,
     status |-> "running",
     started_at |-> clock,
     output |-> <<>>,
     working_directory |-> workingDirectory]

\* refreshTasks / getTaskStatus: the boundary mapping of a task the backend
\* sent.
MapBackendTask(task) ==
    [id |-> Field(task, "id"),
     description |-> Field(task, "description"),
     status |-> Field(task, "status"),
     startedAt |-> IF Field(task, "started_at") # Undefined
                   THEN Field(task, "started_at") ELSE Undefined,
     completedAt |-> IF Field(task, "completed_at") # Undefined
                     THEN Field(task, "completed_at") ELSE Undefined,
     output |-> Field(task, "output"),
     workingDirectory |-> Field(task, "working_directory")]

\* The positions of the backend's tasks with the id.
BackendCarrying(taskId) ==
    {i \in 1..Len(backend.tasks) : backend.tasks[i].id = taskId}

\* The desktop build after construction: an empty registry behind
\* tauriInvoke, and the mount effect's refreshTasks awaiting it.
InitTauri ==
    /\ heap = InitialHeap
    /\ mockTasks = <<1, 2>>
    /\ timers = {}
    /\ now \in InitNows
    /\ calls = <<[Idle EXCEPT !.op = "refreshTasks", !.phase = "tauri",
                              !.next = "refresh", !.due = now]>>
    /\ tasks = <<>>
    /\ loading = TRUE
    /\ error = Null
    /\ returned = NoReturn
    /\ lastCleanup = NoCleanup
    /\ issued = 0
    /\ driver = NoDriver
    /\ tauri = TRUE
    /\ InitApp
    /\ backend = [tasks |-> <<>>, failed |-> 0]
    /\ InitWorktreesIdle

\* tauriInvoke rejects: invoke logs the error and goes on to the delay and
\* the mock implementation.
BackendFails ==
    \E s \in Slots, d \in Delays :
        /\ calls[s].phase = "tauri"
        /\ calls' = [calls EXCEPT ![s] = [@ EXCEPT !.phase = calls[s].next,
                                                   !.failed = TRUE,
                                                   !.due = now + d]]
        /\ backend' = [backend EXCEPT !.failed = @ + 1]
        /\ returned' = NoReturn
        /\ UNCHANGED <<heap, mockTasks, timers, now, tasks, loading, error,
                       lastCleanup, issued>>
        /\ UNCHANGED <<driver, tauri, appVars, worktreeVars, overlapVars, lastCommand>>

\* tauriInvoke resolves for start_claude_task: the registry has created the
\* task, and startTask goes on to its refresh.
BackendStarts ==
    \E s \in Slots :
        /\ calls[s].phase = "tauri" /\ calls[s].next = "cmd"
        /\ calls[s].op = "startTask"
        /\ backend' = [backend EXCEPT !.tasks =
               Append(@, BackendTask(Len(@) + 1, now, calls[s].description,
                                     calls[s].workingDirectory))]
        /\ AwaitRefresh(s, [calls[s] EXCEPT
                               !.taskId = BackendId(Len(backend.tasks) + 1)])
        /\ UNCHANGED <<heap, mockTasks, timers, now, tasks, lastCleanup,
                       issued>>
        /\ UNCHANGED <<driver, tauri, appVars, worktreeVars, overlapVars, lastCommand>>

\* tauriInvoke resolves for get_claude_task_status: the registry knows the
\* id, and getTaskStatus returns the mapped task.
BackendGets ==
    \E s \in Slots :
        /\ calls[s].phase = "tauri" /\ calls[s].next = "cmd"
        /\ calls[s].op = "getTaskStatus"
        /\ BackendCarrying(calls[s].taskId) # {}
        /\ LET i == CHOOSE j \in BackendCarrying(calls[s].taskId) : TRUE
           IN  returned' = [op |-> "getTaskStatus", n |-> calls[s].n,
                            outcome |-> "resolved",
                            taskId |-> calls[s].taskId, count |-> 0,
                            found |-> TRUE, follow |-> calls[s].follow,
                            message |-> "",
                            task |-> <<MapBackendTask(backend.tasks[i])>>]
        /\ Settle(s)
        /\ UNCHANGED <<heap, mockTasks, timers, now, tasks, loading, error,
                       lastCleanup, issued>>
        /\ UNCHANGED <<driver, tauri, appVars, backend, worktreeVars, overlapVars,
                       lastCommand>>

\* tauriInvoke resolves for list_claude_tasks, then refreshTasks to its end
\* and the hook function that awaited it to its return, as in ListBody.
BackendLists ==
    \E s \in Slots :
        /\ calls[s].phase = "tauri" /\ calls[s].next = "refresh"
        /\ tasks' = [i \in 1..Len(backend.tasks) |->
                       MapBackendTask(backend.tasks[i])]
        /\ loading' = FALSE
        /\ returned' = [op |-> calls[s].op, n |-> calls[s].n,
                        outcome |-> "resolved",
                        taskId |-> calls[s].taskId, count |-> calls[s].count,
                        found |-> calls[s].found, follow |-> FALSE,
                        message |-> "", task |-> <<>>]
        /\ IF calls[s].op = "startTask" /\ calls[s].thenGet
           THEN Invoke(s, [Idle EXCEPT !.op = "getTaskStatus",
                                       !.n = calls[s].n,
                                       !.failed = calls[s].failed,
                                       !.taskId = calls[s].taskId,
                                       !.follow = TRUE], "cmd")
           ELSE Settle(s)
        /\ UNCHANGED <<heap, mockTasks, timers, now, error, lastCleanup,
                       issued>>
        /\ UNCHANGED <<driver, tauri, appVars, backend, worktreeVars, overlapVars,
                       lastCommand>>

NextTauri ==
    \/ Advance
    \/ TimerFire
    \/ CallStartTask
    \/ StartBody
    \/ GetBody
    \/ ListBody
    \/ BackendFails
    \/ BackendStarts
    \/ BackendGets
    \/ BackendLists

SpecTauri == InitTauri /\ [][NextTauri]_vars

\* tauriInvoke neither resolves nor rejects: the await of invoke has no
\* timeout, and the call stays where it is.
BackendHangs ==
    \E s \in Slots :
        /\ calls[s].phase = "tauri"
        /\ calls' = [calls EXCEPT ![s] = [@ EXCEPT !.phase = "hung"]]
        /\ returned' = NoReturn
        /\ UNCHANGED <<heap, mockTasks, timers, now, tasks, loading, error,
                       lastCleanup, issued>>
        /\ UNCHANGED <<driver, tauri, appVars, backend, worktreeVars, overlapVars,
                       lastCommand>>

NextTauriHang ==
    \/ NextTauri
    \/ BackendHangs

\* The desktop build with a backend that may leave a command unanswered.
\* Every step that is due is taken in the end: the timers of the event loop
\* fire, and the backend answers the commands it has not left unanswered.
SpecTauriLive ==
    /\ InitTauri
    /\ [][NextTauriHang]_vars
    /\ WF_vars(NextTauri)

\* -------------------------------------- worktrees and overlaps, web build
\* What the task description field of a worktree's card can hold.
Descriptions == {"", "Fix login bug"}

\* The name and branch typed into the create form: a new name, and the name
\* of a worktree that exists.
NewWorktrees ==
    {<<"hotfix", "fix/login">>, <<"frontend-feature", "fix/login">>}

\* mockOverlapAnalysis with package.json modified at 12:40 and 12:50.
MockOverlapAnalysisRecentMedium ==
    [totalOverlaps |-> 2,
     fileOverlaps |->
       <<[filePath |-> "types/index.ts",
          worktrees |-> <<"frontend-feature", "backend-api">>,
          conflictRisk |-> "high",
          lastModified |-> ("frontend-feature" :> 45000000)
                               @@ ("backend-api" :> 42300000)],
         [filePath |-> "package.json",
          worktrees |-> <<"frontend-feature", "backend-api">>,
          conflictRisk |-> "medium",
          lastModified |-> ("frontend-feature" :> 45600000)
                               @@ ("backend-api" :> 46200000)]>>,
     riskAssessment |-> [low |-> 0, medium |-> 1, high |-> 1],
     recommendations |-> <<>>]

\* mockOverlapAnalysis: the one object analyze_worktree_overlaps returns.  The
\* pictograph that opens each recommendation is left out.
MockOverlapAnalysis ==
    [totalOverlaps |-> 2,
     fileOverlaps |->
       <<[filePath |-> "types/index.ts",
          worktrees |-> <<"frontend-feature", "backend-api">>,
          conflictRisk |-> "high",
          lastModified |-> ("frontend-feature" :> 45000000)
                               @@ ("backend-api" :> 42300000)],
         [filePath |-> "package.json",
          worktrees |-> <<"frontend-feature", "backend-api">>,
          conflictRisk |-> "medium",
          lastModified |-> ("frontend-feature" :> 36900000)
                               @@ ("backend-api" :> 35100000)]>>,
     riskAssessment |-> [low |-> 0, medium |-> 1, high |-> 1],
     recommendations |->
       <<"1 files have high conflict risk. Consider coordinating changes or merging frequently.",
         "1 files have medium conflict risk. Review changes before merging.",
         "Most problematic file: types/index.ts (modified in 2 worktrees)">>]

\* new Date(value): Invalid Date for undefined.
DateOf(value) == IF value = Undefined THEN "Invalid Date" ELSE value

\* refreshWorktrees: the boundary mapping of one worktree.
MapWorktree(wt) ==
    [id |-> Field(wt, "id"),
     name |-> Field(wt, "name"),
     branch |-> Field(wt, "branch"),
     path |-> Field(wt, "path"),
     status |-> Field(wt, "status"),
     createdAt |-> DateOf(Field(wt, "created_at")),
     lastActivity |-> DateOf(Field(wt, "last_activity"))]

\* refreshWorktrees with a mapping that throws on an invalid date
\* (toISOString of Invalid Date).
WorktreesOutcomeThrowing(result) ==
    [outcome |-> "failed", message |-> "Invalid time value", worktrees |-> <<>>]

\* refreshWorktrees after invoke returned result.
WorktreesOutcome(result) ==
    [outcome |-> "resolved", message |-> "",
     worktrees |-> [i \in 1..Len(result) |-> MapWorktree(result[i])]]

\* analyzeOverlaps after invoke returned result: result.file_overlaps.map
\* throws a TypeError when the result has no file_overlaps, and the catch
\* sets its message.
AnalysisOutcome(result) ==
    IF "file_overlaps" \notin DOMAIN result
    THEN [outcome |-> "failed",
          message |-> "Cannot read properties of undefined (reading 'map')",
          analysis |-> <<>>]
    ELSE [outcome |-> "resolved", message |-> "",
          analysis |-> <<[totalOverlaps |-> Field(result, "total_overlaps"),
                          fileOverlaps |-> result.file_overlaps,
                          riskAssessment |-> Field(result, "risk_assessment"),
                          recommendations |-> Field(result, "recommendations")]>>]

\* The object create_worktree builds.
NewWorktree(clock, name, branch) ==
    [id |-> clock, name |-> name, branch |-> branch, path |-> "/tmp/" \o name,
     status |-> "active", createdAt |-> clock, lastActivity |-> clock]

\* delete_worktree: findIndex by name, and splice when it is found.
DeleteWorktree(list, name) ==
    LET hits == {i \in 1..Len(list) : list[i].name = name}
    IN  IF hits = {} THEN list
        ELSE Splice(list, CHOOSE i \in hits : \A j \in hits : i <= j)

\* The names of the worktrees of the store.
Tracked == {mockWorktrees[i].name : i \in 1..Len(mockWorktrees)}

\* The web build with the worktree list mounted: the mount effects'
\* refreshTasks and refreshWorktrees are in flight.
InitWeb ==
    /\ heap = InitialHeap
    /\ mockTasks = <<1, 2>>
    /\ timers = {}
    /\ now \in InitNows
    /\ \E d \in Delays, e \in Delays :
          calls = <<[Idle EXCEPT !.op = "refreshTasks", !.phase = "refresh",
                                 !.due = now + d],
                    [Idle EXCEPT !.op = "refreshWorktrees",
                                 !.phase = "worktrees", !.due = now + e]>>
    /\ tasks = <<>>
    /\ loading = TRUE
    /\ error = Null
    /\ returned = NoReturn
    /\ lastCleanup = NoCleanup
    /\ issued = 0
    /\ driver = NoDriver
    /\ tauri = FALSE
    /\ InitApp
    /\ backend = NoBackend
    /\ InitWorktreesIdle

\* The call at position s goes on to refreshWorktrees: setLoading(true),
\* setError(null) and invoke of the list command.
AwaitRefreshWorktrees(s, call) ==
    /\ worktreesLoading' = TRUE
    /\ worktreesError' = Null
    /\ Invoke(s, call, "worktrees")
    /\ returned' = NoReturn

\* handleCreateWorktree with both fields filled in, and createWorktree up to
\* its await of invoke's delay.
CallCreateWorktree ==
    \E in \in NewWorktrees :
        /\ Issue([Idle EXCEPT !.op = "createWorktree", !.name = in[1],
                              !.branch = in[2]])
        /\ worktreesError' = Null
        /\ UNCHANGED <<mockWorktrees, worktrees, worktreesLoading>>
        /\ UNCHANGED <<taskVars, now, driver, tauri, appVars, backend, overlapVars,
                       lastCommand>>

\* create_worktree, then createWorktree up to the delay of its refresh.
CreateBody ==
    \E s \in Slots :
        /\ calls[s].op = "createWorktree" /\ calls[s].phase = "cmd"
        /\ Delayed(s)
        /\ mockWorktrees' = Append(mockWorktrees,
                                   NewWorktree(now, calls[s].name,
                                               calls[s].branch))
        /\ AwaitRefreshWorktrees(s, calls[s])
        /\ lastCommand' = [command |-> "create_worktree"]
        /\ UNCHANGED <<taskVars, now, issued, worktrees, driver, tauri, appVars,
                       backend, overlapVars>>

\* handleDeleteWorktree, confirmed, for a worktree of the list shown, and
\* deleteWorktree up to its await of invoke's delay.
CallDeleteWorktree ==
    \E i \in 1..Len(worktrees) :
        /\ Issue([Idle EXCEPT !.op = "deleteWorktree",
                              !.name = worktrees[i].name])
        /\ worktreesError' = Null
        /\ UNCHANGED <<mockWorktrees, worktrees, worktreesLoading>>
        /\ UNCHANGED <<taskVars, now, driver, tauri, appVars, backend, overlapVars,
                       lastCommand>>

\* delete_worktree, then deleteWorktree up to the delay of its refresh.
\* found keeps whether the command removed a worktree.
DeleteBody ==
    \E s \in Slots :
        /\ calls[s].op = "deleteWorktree" /\ calls[s].phase = "cmd"
        /\ Delayed(s)
        /\ mockWorktrees' = DeleteWorktree(mockWorktrees, calls[s].name)
        /\ AwaitRefreshWorktrees(s, [calls[s] EXCEPT
                                       !.found = calls[s].name \in Tracked])
        /\ lastCommand' = [command |-> "delete_worktree"]
        /\ UNCHANGED <<taskVars, now, issued, worktrees, driver, tauri, appVars,
                       backend, overlapVars>>

\* list_worktrees, then refreshWorktrees to its end and the hook function
\* that awaited it to its return.  The outcome handed on is failed when the
\* refresh ended with error set.
ListWorktreesBody ==
    \E s \in Slots :
        /\ calls[s].phase = "worktrees"
        /\ Delayed(s)
        /\ LET end == WorktreesOutcome(mockWorktrees)
           IN  /\ worktrees' = IF end.outcome = "resolved"
                               THEN end.worktrees ELSE worktrees
               /\ worktreesError' = IF end.outcome = "resolved"
                                    THEN worktreesError ELSE end.message
               /\ returned' = [op |-> calls[s].op, n |-> calls[s].n,
                               outcome |-> end.outcome,
                               taskId |-> UnknownId, count |-> 0,
                               found |-> FALSE, follow |-> FALSE,
                               message |-> end.message, task |-> <<>>]
        /\ worktreesLoading' = FALSE
        /\ Settle(s)
        /\ lastCommand' = [command |-> "list_worktrees",
                           repoPath |-> calls[s].repoPath]
        /\ UNCHANGED <<taskVars, now, issued, mockWorktrees, driver, tauri, appVars,
                       backend, overlapVars>>

\* handleStartTask for a worktree of the list shown: it returns when the
\* description is empty, and calls startTask with the worktree's path
\* otherwise; startTask up to its await of invoke's delay.
HandleStartTask ==
    \E i \in 1..Len(worktrees), description \in Descriptions :
        /\ description # ""
        /\ Issue([Idle EXCEPT !.op = "startTask",
                              !.workingDirectory = worktrees[i].path,
                              !.description = description])
        /\ error' = Null
        /\ UNCHANGED <<heap, mockTasks, timers, now, tasks, loading,
                       lastCleanup>>
        /\ UNCHANGED beyondTasks

\* analyzeOverlaps up to its await of invoke's delay.
CallAnalyzeOverlaps ==
    /\ Issue([Idle EXCEPT !.op = "analyzeOverlaps"])
    /\ overlapLoading' = TRUE
    /\ overlapError' = Null
    /\ UNCHANGED <<taskVars, now, driver, tauri, appVars, backend, worktreeVars,
                   overlapAnalysis, dependencies, lastCommand>>

\* analyze_worktree_overlaps, then analyzeOverlaps to its end.  lastCommand
\* keeps what the command returned and the worktrees tracked as it ran.
AnalyzeBody ==
    \E s \in Slots :
        /\ calls[s].op = "analyzeOverlaps" /\ calls[s].phase = "cmd"
        /\ Delayed(s)
        /\ LET end == AnalysisOutcome(MockOverlapAnalysis)
           IN  /\ overlapAnalysis' = IF end.outcome = "resolved"
                                     THEN end.analysis ELSE overlapAnalysis
               /\ overlapError' = IF end.outcome = "resolved"
                                  THEN overlapError ELSE end.message
               /\ returned' = [op |-> "analyzeOverlaps", n |-> calls[s].n,
                               outcome |-> end.outcome,
                               taskId |-> UnknownId, count |-> 0,
                               found |-> FALSE, follow |-> FALSE,
                               message |-> end.message, task |-> <<>>]
        /\ overlapLoading' = FALSE
        /\ Settle(s)
        /\ lastCommand' = [command |-> "analyze_worktree_overlaps",
                           result |-> MockOverlapAnalysis,
                           tracked |-> Tracked]
        /\ UNCHANGED <<taskVars, now, issued, driver, tauri, appVars, backend,
                       worktreeVars, dependencies>>

NextWeb ==
    \/ Advance
    \/ TimerFire
    \/ HandleStartTask
    \/ StartBody
    \/ ListBody
    \/ CallCreateWorktree
    \/ CreateBody
    \/ CallDeleteWorktree
    \/ DeleteBody
    \/ ListWorktreesBody
    \/ CallAnalyzeOverlaps
    \/ AnalyzeBody

SpecWeb == InitWeb /\ [][NextWeb]_vars

\* ------------------------------------------ the overlap matrix, web build
\* The lists of file paths analyzeDependencies is called with.
DependencyInputs ==
    {<<>>, <<"src/App.tsx">>, <<"README.md">>,
     <<"src/App.tsx", "types/index.ts">>}

\* What analyze_file_dependencies returns; impact_score in tenths.
MockDependencies ==
    <<[file_path |-> "src/App.tsx",
       dependencies |-> <<"./components/Header", "./hooks/useAuth">>,
       dependents |-> <<>>,
       impact_score |-> 85],
      [file_path |-> "types/index.ts",
       dependencies |-> <<>>,
       dependents |-> <<"src/App.tsx", "src/components/UserList.tsx">>,
       impact_score |-> 92]>>

\* file_path.split('/').pop() || file_path, of the paths the command returns.
BaseName(path) ==
    CASE path = "src/App.tsx" -> "App.tsx"
      [] path = "types/index.ts" -> "index.ts"
      [] OTHER -> path

\* analyzeDependencies: the boundary mapping of one node.
MapDependency(dep) ==
    [id |-> Field(dep, "file_path"),
     name |-> BaseName(Field(dep, "file_path")),
     type |-> "file",
     path |-> Field(dep, "file_path"),
     dependencies |-> Field(dep, "dependencies"),
     dependents |-> Field(dep, "dependents"),
     impactScore |-> Field(dep, "impact_score")]

\* analyzeDependencies after invoke returned result.
DependenciesOutcome(result) ==
    [outcome |-> "resolved", message |-> "",
     dependencies |-> [i \in 1..Len(result) |-> MapDependency(result[i])]]

\* The web build with the overlap matrix mounted: the mount effect's
\* analyzeOverlaps is in flight.
InitOverlap ==
    /\ heap = InitialHeap
    /\ mockTasks = <<1, 2>>
    /\ timers = {}
    /\ now \in InitNows
    /\ \E d \in Delays :
          calls = <<[Idle EXCEPT !.op = "analyzeOverlaps", !.phase = "cmd",
                                 !.due = now + d]>>
    /\ tasks = <<>>
    /\ loading = TRUE
    /\ error = Null
    /\ returned = NoReturn
    /\ lastCleanup = NoCleanup
    /\ issued = 0
    /\ driver = NoDriver
    /\ tauri = FALSE
    /\ InitApp
    /\ backend = NoBackend
    /\ mockWorktrees = InitialWorktrees
    /\ worktrees = <<>>
    /\ worktreesLoading = TRUE
    /\ worktreesError = Null
    /\ overlapAnalysis = <<>>
    /\ overlapLoading = TRUE
    /\ overlapError = Null
    /\ dependencies = <<>>
    /\ lastCommand = NoCommand

\* analyzeDependencies up to its await of invoke's delay.
CallAnalyzeDependencies ==
    \E filePaths \in DependencyInputs :
        /\ Issue([Idle EXCEPT !.op = "analyzeDependencies",
                              !.filePaths = filePaths])
        /\ overlapLoading' = TRUE
        /\ overlapError' = Null
        /\ UNCHANGED <<taskVars, now, driver, tauri, appVars, backend, worktreeVars,
                       overlapAnalysis, dependencies, lastCommand>>

\* analyze_file_dependencies, then analyzeDependencies to its end.
\* lastCommand keeps the paths asked for and what the command returned.
DependenciesBody ==
    \E s \in Slots :
        /\ calls[s].op = "analyzeDependencies" /\ calls[s].phase = "cmd"
        /\ Delayed(s)
        /\ LET end == DependenciesOutcome(MockDependencies)
           IN  /\ dependencies' = IF end.outcome = "resolved"
                                  THEN end.dependencies ELSE dependencies
               /\ overlapError' = IF end.outcome = "resolved"
                                  THEN overlapError ELSE end.message
               /\ returned' = [op |-> "analyzeDependencies",
                               n |-> calls[s].n, outcome |-> end.outcome,
                               taskId |-> UnknownId, count |-> 0,
                               found |-> FALSE, follow |-> FALSE,
                               message |-> end.message, task |-> <<>>]
        /\ overlapLoading' = FALSE
        /\ Settle(s)
        /\ lastCommand' = [command |-> "analyze_file_dependencies",
                           filePaths |-> calls[s].filePaths,
                           result |-> MockDependencies]
        /\ UNCHANGED <<taskVars, now, issued, driver, tauri, appVars, backend,
                       worktreeVars, overlapAnalysis>>

NextOverlap ==
    \/ Advance
    \/ CallAnalyzeOverlaps
    \/ AnalyzeBody
    \/ CallAnalyzeDependencies
    \/ DependenciesBody

SpecOverlap == InitOverlap /\ [][NextOverlap]_vars

\* ------------------------------------------- a change of repository path
\* The repository paths the path field of App is given.
RepoPaths == {"/repo/a", "/repo/b"}

\* The worktrees the backend lists for a repository, as they are sent over
\* the boundary: one of the repository's own.
BackendWorktrees(path) ==
    <<[id |-> path, name |-> "main", branch |-> "main", path |-> path,
       status |-> "active", created_at |-> Task2Started,
       last_activity |-> Task2Completed]>>

\* The worktree list mounted for the first repository path, in the web or
\* the desktop build: the mount effects' refreshTasks and refreshWorktrees
\* are in flight.
InitRepo ==
    /\ heap = InitialHeap
    /\ mockTasks = <<1, 2>>
    /\ timers = {}
    /\ now \in InitNows
    /\ tauri \in BOOLEAN
    /\ \E d \in Delays, e \in Delays :
          calls = IF tauri
                  THEN <<[Idle EXCEPT !.op = "refreshTasks", !.phase = "tauri",
                                      !.next = "refresh", !.due = now],
                         [Idle EXCEPT !.op = "refreshWorktrees",
                                      !.phase = "tauri", !.next = "worktrees",
                                      !.due = now, !.repoPath = "/repo/a"]>>
                  ELSE <<[Idle EXCEPT !.op = "refreshTasks",
                                      !.phase = "refresh", !.due = now + d],
                         [Idle EXCEPT !.op = "refreshWorktrees",
                                      !.phase = "worktrees", !.due = now + e,
                                      !.repoPath = "/repo/a"]>>
    /\ tasks = <<>>
    /\ loading = TRUE
    /\ error = Null
    /\ returned = NoReturn
    /\ lastCleanup = NoCleanup
    /\ issued = 0
    /\ driver = NoDriver
    /\ backend = NoBackend
    /\ InitApp
    /\ InitWorktreesIdle

\* The path field changes: App renders with the new repoPath, and the effect
\* of useWorktrees runs refreshWorktrees for it up to its await of invoke.
ChangeRepoPath ==
    \E path \in RepoPaths \ {repoPath} :
        /\ issued < MaxOps
        /\ Len(calls) < MaxInFlight
        /\ repoPath' = path
        /\ worktreesLoading' = TRUE
        /\ worktreesError' = Null
        /\ Invoke(Len(calls) + 1,
                  [Idle EXCEPT !.op = "refreshWorktrees", !.n = issued + 1,
                               !.repoPath = path], "worktrees")
        /\ issued' = issued + 1
        /\ returned' = NoReturn
        /\ UNCHANGED <<taskVars, now, driver, tauri, backend, timeline,
                       mockWorktrees, worktrees, overlapVars, lastCommand>>

\* tauriInvoke resolves for list_worktrees, then refreshWorktrees to its end.
BackendListsWorktrees ==
    \E s \in Slots :
        /\ calls[s].phase = "tauri" /\ calls[s].next = "worktrees"
        /\ LET end == WorktreesOutcome(BackendWorktrees(calls[s].repoPath))
           IN  /\ worktrees' = IF end.outcome = "resolved"
                               THEN end.worktrees ELSE worktrees
               /\ worktreesError' = IF end.outcome = "resolved"
                                    THEN worktreesError ELSE end.message
               /\ returned' = [op |-> calls[s].op, n |-> calls[s].n,
                               outcome |-> end.outcome,
                               taskId |-> UnknownId, count |-> 0,
                               found |-> FALSE, follow |-> FALSE,
                               message |-> end.message, task |-> <<>>]
        /\ worktreesLoading' = FALSE
        /\ Settle(s)
        /\ lastCommand' = [command |-> "list_worktrees",
                           repoPath |-> calls[s].repoPath]
        /\ UNCHANGED <<taskVars, now, issued, mockWorktrees, driver, tauri,
                       appVars, backend, overlapVars>>

NextRepo ==
    \/ Advance
    \/ ListBody
    \/ ListWorktreesBody
    \/ ChangeRepoPath
    \/ BackendFails
    \/ BackendLists
    \/ BackendListsWorktrees

SpecRepo == InitRepo /\ [][NextRepo]_vars

\* ----------------------------------------------------------- the timeline
\* The timeline mounted: its mount effect has set the commits, the first one
\* is current and nothing plays.  No hook is mounted with it.
InitTimeline ==
    /\ heap = InitialHeap
    /\ mockTasks = <<1, 2>>
    /\ timers = {}
    /\ now \in InitNows
    /\ calls = <<>>
    /\ tasks = <<>>
    /\ loading = TRUE
    /\ error = Null
    /\ returned = NoReturn
    /\ lastCleanup = NoCleanup
    /\ issued = 0
    /\ driver = NoDriver
    /\ tauri = FALSE
    /\ backend = NoBackend
    /\ repoPath = "/repo/a"
    /\ timeline = [NoTimeline EXCEPT !.commits = MockCommits]
    /\ InitWorktreesIdle

\* A step of the timeline: the bound on the steps of a behaviour, and what
\* the step leaves alone.  Every step counts itself in events and names its
\* handler in last.
TimelineStep ==
    /\ timeline.events < MaxEvents
    /\ returned' = NoReturn
    /\ UNCHANGED <<taskVars, calls, issued, driver, tauri, backend,
                   worktreeVars, overlapVars, lastCommand>>

\* Half a playback interval passes, not past a pending tick.
TimelineAdvance ==
    /\ now' = now + PlaybackInterval \div 2
    /\ timeline.nextTick # Undefined => now' <= timeline.nextTick
    /\ timeline' = [timeline EXCEPT !.events = @ + 1, !.last = "clock"]
    /\ TimelineStep
    /\ UNCHANGED repoPath

\* handlePlayPause, and the playback effect that follows the render: its
\* cleanup clears the interval, and it sets one when isPlaying is true.
HandlePlayPause ==
    /\ timeline' = [timeline EXCEPT
                      !.playing = ~timeline.playing,
                      !.nextTick = IF ~timeline.playing
                                   THEN now + PlaybackInterval ELSE Undefined,
                      !.events = @ + 1, !.last = "playPause"]
    /\ TimelineStep
    /\ UNCHANGED <<now, repoPath>>

\* handleReset, and the playback effect's cleanup when isPlaying changed.
HandleReset ==
    /\ timeline' = [timeline EXCEPT !.index = 0, !.playing = FALSE,
                                    !.nextTick = Undefined,
                                    !.events = @ + 1, !.last = "reset"]
    /\ TimelineStep
    /\ UNCHANGED <<now, repoPath>>

\* handleTimelineChange for a value of the slider, whose range is
\* 0..commits.length - 1, and the playback effect's cleanup when isPlaying
\* changed.
HandleTimelineChange ==
    \E value \in 0..(timeline.commits - 1) :
        /\ timeline' = [timeline EXCEPT !.index = value, !.playing = FALSE,
                                        !.nextTick = Undefined,
                                        !.events = @ + 1, !.last = "slider"]
        /\ TimelineStep
        /\ UNCHANGED <<now, repoPath>>

\* The interval's callback running on past the last commit.
PlaybackTickOverrun ==
    /\ timeline.nextTick # Undefined
    /\ now >= timeline.nextTick
    /\ timeline' = [timeline EXCEPT !.index = @ + 1,
                                    !.nextTick = @ + PlaybackInterval,
                                    !.events = @ + 1, !.last = "tick"]
    /\ TimelineStep
    /\ UNCHANGED <<now, repoPath>>

\* The interval's callback: at the last commit the updater stops playback
\* and keeps the index, and the effect's cleanup clears the interval;
\* before it, the updater moves to the next commit.
PlaybackTick ==
    /\ timeline.nextTick # Undefined
    /\ now >= timeline.nextTick
    /\ timeline' =
         IF timeline.index >= timeline.commits - 1
         THEN [timeline EXCEPT !.playing = FALSE, !.nextTick = Undefined,
                               !.events = @ + 1, !.last = "tick"]
         ELSE [timeline EXCEPT !.index = @ + 1,
                               !.nextTick = @ + PlaybackInterval,
                               !.events = @ + 1, !.last = "tick"]
    /\ TimelineStep
    /\ UNCHANGED <<now, repoPath>>

\* The path field changes: the mount effect sets the same commits again.
TimelineRepoPath ==
    \E path \in RepoPaths \ {repoPath} :
        /\ repoPath' = path
        /\ timeline' = [timeline EXCEPT !.events = @ + 1, !.last = "repoPath"]
        /\ TimelineStep
        /\ UNCHANGED now

NextTimeline ==
    \/ TimelineAdvance
    \/ HandlePlayPause
    \/ HandleReset
    \/ HandleTimelineChange
    \/ PlaybackTick
    \/ TimelineRepoPath

SpecTimeline == InitTimeline /\ [][NextTimeline]_vars

\* ------------------------------------------------- the refresh driver
\* useEffect of useClaudeCode: refreshTasks() is in flight and
\* setInterval(refreshTasks, 5000) is set.
InitDriver ==
    /\ InitClaudeCode
    /\ driver = [active |-> TRUE, interval |-> TRUE,
                 nextTick |-> now + Interval, ticks |-> 0, left |-> 0]
    /\ tauri = FALSE
    /\ InitApp
    /\ backend = NoBackend
    /\ InitWorktreesIdle

\* The refreshes in flight.
Refreshing == {s \in Slots : calls[s].phase = "refresh"}

\* The pending deadlines, the interval's among them while it is set.
DriverDeadlines ==
    Deadlines \cup (IF driver.interval THEN {driver.nextTick} ELSE {})

\* The instants at which something becomes possible: a deadline, the instant
\* of the next tick (also of a cleared interval), and the instant at which a
\* command invoked now can run at the instant of the next tick.
DriverInstants ==
    DriverDeadlines \cup {driver.nextTick, driver.nextTick - DelayMin}

\* The clock moves on to a later instant, not past a pending deadline.
DriverAdvance ==
    /\ \E t \in DriverInstants :
          /\ t > now
          /\ \A d \in DriverDeadlines : t <= d
          /\ now' = t
    /\ returned' = NoReturn
    /\ UNCHANGED <<heap, mockTasks, timers, calls, tasks, loading, error,
                   lastCleanup, issued>>
    /\ UNCHANGED beyondTasks

\* A tick that starts no refresh while one is in flight.
TickSkipping ==
    /\ driver.interval
    /\ now >= driver.nextTick
    /\ driver.ticks < MaxTicks
    /\ driver' = [driver EXCEPT !.ticks = @ + 1, !.nextTick = @ + Interval]
    /\ IF Refreshing = {}
       THEN AwaitRefresh(Len(calls) + 1, [Idle EXCEPT !.op = "refreshTasks"])
       ELSE UNCHANGED <<calls, loading, error, returned>>
    /\ UNCHANGED <<heap, mockTasks, timers, now, tasks, lastCleanup, issued>>
    /\ UNCHANGED <<tauri, appVars, backend, worktreeVars, overlapVars, lastCommand>>

\* The interval's callback: refreshTasks up to its await of invoke's delay.
Tick ==
    /\ driver.interval
    /\ now >= driver.nextTick
    /\ driver.ticks < MaxTicks
    /\ driver' = [driver EXCEPT !.ticks = @ + 1, !.nextTick = @ + Interval]
    /\ AwaitRefresh(Len(calls) + 1, [Idle EXCEPT !.op = "refreshTasks"])
    /\ UNCHANGED <<heap, mockTasks, timers, now, tasks, lastCleanup, issued>>
    /\ UNCHANGED <<tauri, appVars, backend, worktreeVars, overlapVars, lastCommand>>

\* The effect's cleanup forgetting clearInterval.
UnmountLeaky ==
    /\ driver.active
    /\ driver' = [driver EXCEPT !.active = FALSE,
                                !.left = Cardinality(Refreshing)]
    /\ returned' = NoReturn
    /\ UNCHANGED <<heap, mockTasks, timers, now, calls, tasks, loading, error,
                   lastCleanup, issued>>
    /\ UNCHANGED <<tauri, appVars, backend, worktreeVars, overlapVars, lastCommand>>

\* The effect's cleanup: clearInterval(interval).  left counts the refreshes
\* in flight when it runs.
Unmount ==
    /\ driver.active
    /\ driver' = [driver EXCEPT !.active = FALSE, !.interval = FALSE,
                                !.left = Cardinality(Refreshing)]
    /\ returned' = NoReturn
    /\ UNCHANGED <<heap, mockTasks, timers, now, calls, tasks, loading, error,
                   lastCleanup, issued>>
    /\ UNCHANGED <<tauri, appVars, backend, worktreeVars, overlapVars, lastCommand>>

NextDriver ==
    \/ DriverAdvance
    \/ Tick
    \/ Unmount
    \/ CallCancelTask
    \/ CancelBody
    \/ ListBody

SpecDriver == InitDriver /\ [][NextDriver]_vars

\* The mounted hook with its interval, tasks being started and completed by
\* their timers.
NextPoll ==
    \/ DriverAdvance
    \/ Tick
    \/ CallStartTask
    \/ StartBody
    \/ GetBody
    \/ TimerFire
    \/ ListBody

SpecPoll == InitDriver /\ [][NextPoll]_vars

\* ---------------------------------------------------------------- claims
\* The steps the claims are about, told by what they do to the call at
\* position s: its command has run.
CommandStep(s, op) ==
    /\ calls[s].op = op /\ calls[s].phase = "cmd"
    /\ Len(calls') = Len(calls)
    /\ calls'[s].n = calls[s].n /\ calls'[s].phase = "refresh"

CancelStep(s) == CommandStep(s, "cancelTask")

CleanupStep(s) == CommandStep(s, "cleanupCompletedTasks")

GetStep(s) ==
    /\ calls[s].op = "getTaskStatus" /\ calls[s].phase = "cmd"
    /\ calls' = Splice(calls, s)
    /\ returned'.n = calls[s].n

\* The positions of the store whose task carries the id.
Carrying(taskId) == {i \in 1..Len(mockTasks) : heap[mockTasks[i]].id = taskId}

\* The task object an id resolves to: the first of the store carrying it.
Resolved(taskId) ==
    mockTasks[CHOOSE i \in Carrying(taskId) : \A j \in Carrying(taskId) : i <= j]

Terminal(status) == status \in {"completed", "failed"}

\* C1: once a task of the store is completed or failed, no step changes its
\* status.
C1_TerminalStatesAreFinal ==
    [][\A i \in 1..Len(mockTasks) :
          Terminal(heap[mockTasks[i]].status)
              => heap'[mockTasks[i]].status = heap[mockTasks[i]].status]_vars

\* C2: the cancel command for an id that resolves to a running task leaves
\* that task failed, completed at the clock value of the command, with the
\* cancellation marker appended to its output and nothing else of it changed,
\* and leaves every other task and the store's order as they were.
C2_CancelRunningTask ==
    [][\A s \in Slots :
          (/\ CancelStep(s)
           /\ Carrying(calls[s].taskId) # {}
           /\ heap[Resolved(calls[s].taskId)].status = "running")
          => LET r == Resolved(calls[s].taskId)
             IN  /\ heap'[r].status = "failed"
                 /\ "completedAt" \in DOMAIN heap'[r]
                 /\ heap'[r].completedAt = now
                 /\ heap'[r].output = Append(heap[r].output, CancelMarker)
                 /\ \A f \in DOMAIN heap[r] \ {"status", "completedAt", "output"} :
                       f \in DOMAIN heap'[r] /\ heap'[r][f] = heap[r][f]
                 /\ \A q \in 1..Len(heap) : q # r => heap'[q] = heap[q]
                 /\ Len(heap') = Len(heap)
                 /\ mockTasks' = mockTasks]_vars

\* C2 witness: a task that startTask created has been cancelled while running.
C2_Witness ==
    \E i \in 1..Len(mockTasks) :
        LET task == heap[mockTasks[i]]
        IN  /\ task.id > 2
            /\ task.status = "failed"
            /\ task.output = <<"Task started...", "Analyzing codebase...",
                               CancelMarker>>

\* C3: the cancel command for an id that resolves to a completed or failed
\* task changes nothing about that task.
C3_CancelTerminalIsNoOp ==
    [][\A s \in Slots :
          (/\ CancelStep(s)
           /\ Carrying(calls[s].taskId) # {}
           /\ Terminal(heap[Resolved(calls[s].taskId)].status))
          => heap'[Resolved(calls[s].taskId)]
                 = heap[Resolved(calls[s].taskId)]]_vars

\* C4: every task of the store has completedAt exactly when its status is
\* completed or failed.
C4_CompletedAtIffTerminal ==
    \A i \in 1..Len(mockTasks) :
        ("completedAt" \in DOMAIN heap[mockTasks[i]])
            <=> Terminal(heap[mockTasks[i]].status)

\* C4 witness: the store holds a task the timer completed and a task that is
\* still running.
C4_Witness ==
    /\ \E i \in 1..Len(mockTasks) :
          heap[mockTasks[i]].id > 2 /\ heap[mockTasks[i]].status = "completed"
    /\ \E i \in 1..Len(mockTasks) : heap[mockTasks[i]].status = "running"

\* C5: no two tasks of the store have the same id.
C5_TaskIdsAreUnique ==
    \A i, j \in 1..Len(mockTasks) :
        i # j => heap[mockTasks[i]].id # heap[mockTasks[j]].id

\* C6: cancelTask with an id that no task of the store carries ends with its
\* promise rejected.
C6_CancelUnknownRejects ==
    (returned.op = "cancelTask" /\ ~returned.found)
        => returned.outcome = "rejected"

\* C7: getTaskStatus with an id that no task of the store carries ends with
\* its promise rejected and no task value, and changes neither the store nor
\* the hook's tasks, loading and error.
C7_GetUnknownRejects ==
    [][\A s \in Slots :
          (GetStep(s) /\ Carrying(calls[s].taskId) = {})
          => /\ returned'.op = "getTaskStatus"
             /\ returned'.outcome = "rejected"
             /\ returned'.task = <<>>
             /\ UNCHANGED <<heap, mockTasks, tasks, loading, error>>]_vars

\* C7 witness: getTaskStatus for an id of no task has just been rejected.
C7_Witness ==
    /\ returned.op = "getTaskStatus"
    /\ ~returned.found
    /\ returned.outcome = "rejected"

\* The cleanup command is to remove this task at this clock value: it is
\* completed, and was so for more than one hour.
Expired(task, clock) ==
    task.status = "completed" /\ task.completedAt < clock - OneHour

\* The store with every expired task taken out, the others in their order.
RECURSIVE WithoutExpired(_, _, _)
WithoutExpired(list, h, clock) ==
    IF list = <<>> THEN <<>>
    ELSE IF Expired(h[Head(list)], clock)
         THEN WithoutExpired(Tail(list), h, clock)
         ELSE <<Head(list)>> \o WithoutExpired(Tail(list), h, clock)

\* C8: the cleanup command removes exactly the tasks that are completed and
\* were completed more than one hour before it runs, keeps every other task
\* unchanged and in order, and returns the number of tasks it removed.
C8_CleanupRemovesExactlyExpired ==
    [][\A s \in Slots :
          CleanupStep(s)
          => /\ mockTasks' = WithoutExpired(mockTasks, heap, now)
             /\ heap' = heap
             /\ calls'[s].count
                  = Cardinality({i \in 1..Len(mockTasks) :
                                    Expired(heap[mockTasks[i]], now)})]_vars

\* C8 witness: a cleanup command has removed two tasks and kept the running
\* one.
C8_Witness ==
    /\ lastCleanup.count = 2
    /\ \E i \in 1..Len(mockTasks) : heap[mockTasks[i]].status = "running"

\* C9: a cleanup command run for a call issued after the previous cleanup
\* call had returned, with no task completed in between, returns 0.
C9_SecondCleanupReturnsZero ==
    lastCleanup.inSuccession => lastCleanup.count = 0

\* C9 as amended: such a cleanup command returns 0 unless a completed task
\* that was at most one hour old at the previous cleanup command is more than
\* one hour old at this one.
C9_SecondCleanupReturnsZeroUnlessAged ==
    (lastCleanup.inSuccession /\ ~lastCleanup.crossed) => lastCleanup.count = 0

\* C9 witness: a second cleanup in succession has run while the store held a
\* completed task, none having aged past one hour in between.
C9_Witness ==
    /\ lastCleanup.inSuccession
    /\ ~lastCleanup.crossed
    /\ \E i \in 1..Len(mockTasks) : heap[mockTasks[i]].status = "completed"

\* The task getTaskStatus handed to the caller that called it with the id its
\* startTask returned.
FollowUp == returned.op = "getTaskStatus" /\ returned.follow

\* C10: getTaskStatus called with the id startTask has just returned
\* resolves with a task that is running and has a non-empty output.
C10_StatusAfterStartIsRunning ==
    FollowUp
    => /\ returned.outcome = "resolved"
       /\ returned.task[1].status = "running"
       /\ heap[returned.task[1].output].output # <<>>

\* C10 as amended: it resolves with a task of that id and a non-empty output,
\* whose status is running unless a cancel command for the id ran in the
\* meantime, and then the task is failed and its output ends with the
\* cancellation marker.
C10_StatusAfterStartIsRunningUnlessEnded ==
    FollowUp
    => /\ returned.outcome = "resolved"
       /\ returned.task[1].id = returned.taskId
       /\ LET output == heap[returned.task[1].output].output
              status == returned.task[1].status
          IN  /\ output # <<>>
              /\ \/ status = "running"
                 \/ status = "failed" /\ output[Len(output)] = CancelMarker

\* C10 witness: the caller of startTask got the status of its task, running.
C10_Witness ==
    /\ FollowUp
    /\ returned.outcome = "resolved"
    /\ returned.task[1].status = "running"

\* C17: while the hook's tasks stay as they are, no step changes the output
\* sequence of a task value they hold.
C17_HeldTasksAreCopies ==
    [][tasks' = tasks
         => \A i \in 1..Len(tasks) :
               heap'[tasks[i].output].output = heap[tasks[i].output].output]_vars

\* A tick of the interval has just fired.
Ticked == driver'.ticks = driver.ticks + 1

\* C12: at no time are two refreshes of the task list in flight.
C12_OneRefreshInFlight == Cardinality(Refreshing) <= 1

\* C13: while the driver is active the clock never passes the instant of a
\* tick without the tick firing, the instant of the next tick is always one
\* interval after the last, and every tick starts a refresh: it adds a call
\* of refreshTasks awaiting the list command to the calls in flight.
C13_EveryTickRefreshes ==
    [][/\ (driver.active /\ driver.ticks < MaxTicks) => now' <= driver.nextTick
       /\ Ticked
           => /\ now = driver.nextTick
              /\ driver'.nextTick = now + Interval
              /\ Len(calls') = Len(calls) + 1
              /\ calls'[Len(calls')].op = "refreshTasks"
              /\ calls'[Len(calls')].phase = "refresh"
              /\ calls'[Len(calls')].due > now
              /\ \A s \in Slots : calls'[s] = calls[s]]_vars

\* C13 witness: the second tick has started a refresh while a refresh that a
\* cancelTask awaits was in flight.
C13_Witness ==
    /\ driver.active
    /\ driver.ticks = 2
    /\ \E s, r \in Refreshing :
          /\ calls[s].op = "refreshTasks" /\ calls[s].due > now
          /\ calls[r].op = "cancelTask" /\ calls[r].due > now

\* C14: once the effect's cleanup has run, no tick fires and no call of
\* refreshTasks is started.
C14_NoTickAfterTeardown ==
    [][~driver.active
         => /\ ~Ticked
            /\ driver'.ticks = driver.ticks
            /\ ~driver'.active
            /\ Len(calls') > Len(calls)
                 => calls'[Len(calls')].op # "refreshTasks"]_vars

\* C14 witness: the cleanup ran with a refresh in flight after a tick had
\* fired, and the clock has reached the instant of the next tick.
C14_Witness ==
    /\ ~driver.active
    /\ driver.left >= 1
    /\ driver.ticks >= 1
    /\ driver.ticks < MaxTicks
    /\ now >= driver.nextTick

\* C11: when startTask returns id X, the task list its refresh fetched holds
\* a task with id X, and the getTaskStatus(X) the caller issues next
\* resolves with a task of id X.
C11_StartedTaskIsListed ==
    /\ (returned.op = "startTask" /\ returned.outcome = "resolved")
       => \E i \in 1..Len(tasks) : tasks[i].id = returned.taskId
    /\ FollowUp
       => /\ returned.outcome = "resolved"
          /\ returned.task[1].id = returned.taskId

\* C15: a hook call whose command failed at the backend does not go on: no
\* call in flight has had tauriInvoke reject.
C15_BackendFailureRejects == \A s \in Slots : ~calls[s].failed

\* The command of a call in flight has written to a store: the call is in the
\* refresh that follows its command, and the command created, changed or
\* removed something.
Wrote(call) ==
    /\ call.phase \in {"refresh", "worktrees"}
    /\ \/ call.op \in {"startTask", "createWorktree"}
       \/ call.op \in {"cancelTask", "deleteWorktree"} /\ call.found

\* This step ends the call at position s in failure.
Fails(s) ==
    /\ calls' = Splice(calls, s)
    /\ returned'.op = calls[s].op
    /\ returned'.n = calls[s].n
    /\ returned'.outcome \in {"failed", "rejected"}

\* C16: a step that ends a hook call in failure (its refresh or analysis
\* ended with error set, or its promise rejected) changes neither the task
\* store nor the worktree store nor the tasks, worktrees, overlapAnalysis and
\* dependencies the hooks hold, and the call's command had written nothing.
C16_FailureChangesNothing ==
    [][\A s \in Slots :
          Fails(s)
          => /\ UNCHANGED <<heap, mockTasks, mockWorktrees>>
             /\ UNCHANGED <<tasks, worktrees, overlapAnalysis, dependencies>>
             /\ ~Wrote(calls[s])]_vars

\* C16 witness: an analysis of the overlaps has ended with error set while
\* the hooks held tasks and worktrees, and the stores hold their fixtures.
C16_Witness ==
    /\ returned.op = "analyzeOverlaps"
    /\ returned.outcome = "failed"
    /\ overlapError # Null
    /\ ~overlapLoading
    /\ Len(tasks) > 0
    /\ Len(worktrees) > 0

\* C18: a step that adds a task to the task store adds one with a non-empty
\* description whose workingDirectory is the path of a worktree the worktree
\* store holds as the command runs.
C18_TaskNeedsWorktree ==
    [][Len(mockTasks') > Len(mockTasks)
       => LET task == heap'[mockTasks'[Len(mockTasks')]]
          IN  /\ task.description # ""
              /\ \E i \in 1..Len(mockWorktrees) :
                    mockWorktrees[i].path = task.workingDirectory]_vars

\* The worktree names an analysis names in its file overlaps.
Named(analysis) ==
    UNION {{analysis.fileOverlaps[i].worktrees[j] :
              j \in 1..Len(analysis.fileOverlaps[i].worktrees)} :
           i \in 1..Len(analysis.fileOverlaps)}

\* C19: what analyze_worktree_overlaps returned names only worktrees that
\* were tracked as it ran, and with fewer than two worktrees tracked (no file
\* can then be modified by more than one) it has totalOverlaps 0, no file
\* overlaps and no recommendations.
C19_AnalysisOfTrackedWorktrees ==
    lastCommand.command = "analyze_worktree_overlaps"
    => /\ Named(lastCommand.result) \subseteq lastCommand.tracked
       /\ Cardinality(lastCommand.tracked) < 2
          => /\ lastCommand.result.totalOverlaps = 0
             /\ lastCommand.result.fileOverlaps = <<>>
             /\ lastCommand.result.recommendations = <<>>

\* The modification times of a file overlap.
Modified(overlap) ==
    {overlap.lastModified[w] : w \in DOMAIN overlap.lastModified}

\* The earlier and the later modification of a file overlap.
Oldest(overlap) ==
    CHOOSE t \in Modified(overlap) : \A u \in Modified(overlap) : t <= u

Newest(overlap) ==
    CHOOSE t \in Modified(overlap) : \A u \in Modified(overlap) : t >= u

\* The overlaps of two worktrees with the given risk in what the analysis
\* command returned last.
Pairs(risk) ==
    IF lastCommand.command # "analyze_worktree_overlaps" THEN {}
    ELSE {lastCommand.result.fileOverlaps[i] :
            i \in {j \in 1..Len(lastCommand.result.fileOverlaps) :
                     /\ Len(lastCommand.result.fileOverlaps[j].worktrees) = 2
                     /\ lastCommand.result.fileOverlaps[j].conflictRisk = risk}}

CodeUnits(path) ==
    CASE path = "package.json"
           -> <<112, 97, 99, 107, 97, 103, 101, 46, 106, 115, 111, 110>>
      [] path = "types/index.ts"
           -> <<116, 121, 112, 101, 115, 47, 105, 110, 100, 101, 120, 46,
                116, 115>>

\* a sorts before b, code unit by code unit.
RECURSIVE Before(_, _)
Before(a, b) ==
    IF b = <<>> THEN FALSE
    ELSE IF a = <<>> THEN TRUE
    ELSE IF a[1] # b[1] THEN a[1] < b[1]
    ELSE Before(Tail(a), Tail(b))

\* The callout for a file overlap.
Callout(overlap) ==
    "Most problematic file: " \o overlap.filePath \o " (modified in "
        \o ToString(Len(overlap.worktrees)) \o " worktrees)"

\* The file overlaps of an analysis with the most worktrees and, among
\* those, the smallest file path.
MostProblematic(analysis) ==
    LET all == {analysis.fileOverlaps[i] : i \in 1..Len(analysis.fileOverlaps)}
        most == {f \in all : \A g \in all : Len(g.worktrees) <= Len(f.worktrees)}
    IN  {f \in most : \A g \in most :
            ~Before(CodeUnits(g.filePath), CodeUnits(f.filePath))}

\* C21: the last recommendation of a returned analysis with file overlaps is
\* the callout for the file with the most worktrees, and among files with
\* as many for the one with the smallest file path.
C21_CalloutNamesSmallestPath ==
    (lastCommand.command = "analyze_worktree_overlaps"
       /\ lastCommand.result.fileOverlaps # <<>>)
    => \E f \in MostProblematic(lastCommand.result) :
          /\ lastCommand.result.recommendations # <<>>
          /\ lastCommand.result.recommendations[
                 Len(lastCommand.result.recommendations)] = Callout(f)

\* C22: when analyze_file_dependencies has run for a call of
\* analyzeDependencies, the hook holds as many nodes as paths were asked for,
\* and for every path asked for exactly one node, whose id and path are that
\* path.
C22_OneNodePerPath ==
    lastCommand.command = "analyze_file_dependencies"
    => /\ Len(dependencies) = Len(lastCommand.filePaths)
       /\ \A i \in 1..Len(lastCommand.filePaths) :
             /\ Cardinality({j \in 1..Len(dependencies) :
                    dependencies[j].id = lastCommand.filePaths[i]}) = 1
             /\ \A j \in 1..Len(dependencies) :
                   dependencies[j].id = lastCommand.filePaths[i]
                   => dependencies[j].path = lastCommand.filePaths[i]

\* C23: whenever a hook call is in flight, in the end none is, and whenever
\* loading is true, in the end it is false, also when the backend leaves a
\* command unanswered.
C23_EveryOperationEnds ==
    /\ (calls # <<>>) ~> (calls = <<>>)
    /\ loading ~> ~loading

\* C25: every task the hook holds has the startedAt and the workingDirectory
\* every task of the store has, and has completedAt when its status is
\* completed or failed.
C25_TimestampsCrossBoundary ==
    \A i \in 1..Len(tasks) :
        /\ tasks[i].startedAt # Undefined
        /\ tasks[i].workingDirectory # Undefined
        /\ tasks[i].status \in {"completed", "failed"}
           => tasks[i].completedAt # Undefined

\* C26: the step in which analyze_worktree_overlaps returns an analysis and
\* analyzeOverlaps ends leaves overlapAnalysis holding that analysis, error
\* null and loading false.
C26_ReturnedAnalysisIsHeld ==
    [][(lastCommand'.command = "analyze_worktree_overlaps"
          /\ Len(calls') < Len(calls))
       => /\ overlapAnalysis' # <<>>
          /\ overlapAnalysis'[1].totalOverlaps
                = lastCommand'.result.totalOverlaps
          /\ overlapAnalysis'[1].fileOverlaps
                = lastCommand'.result.fileOverlaps
          /\ overlapAnalysis'[1].riskAssessment
                = lastCommand'.result.riskAssessment
          /\ overlapAnalysis'[1].recommendations
                = lastCommand'.result.recommendations
          /\ overlapError' = Null
          /\ ~overlapLoading']_vars

\* The calls of useOverlapAnalysis in flight.
Analysing ==
    {s \in Slots : calls[s].op \in {"analyzeOverlaps", "analyzeDependencies"}}

\* C27: while an analysis request of useOverlapAnalysis is in flight, its
\* loading is true.
C27_LoadingWhileInFlight == Analysing # {} => overlapLoading

\* C28: once no refreshWorktrees is in flight, the list response the hook
\* took last is the one of the request for the current repoPath.
C28_NewestResponseIsHeld ==
    ({s \in Slots : calls[s].op = "refreshWorktrees"} = {}
       /\ lastCommand.command = "list_worktrees")
    => lastCommand.repoPath = repoPath

\* C29: the step in which delete_worktree runs for a name leaves no worktree
\* of that name in the worktree store, and leaves the worktrees of other
\* names as they were, in their order.
C29_DeleteRemovesEveryNamesake ==
    [][\A s \in Slots :
          (/\ calls[s].op = "deleteWorktree" /\ calls[s].phase = "cmd"
           /\ Len(calls') = Len(calls)
           /\ calls'[s].phase # "cmd")
          => /\ \A i \in 1..Len(mockWorktrees') :
                   mockWorktrees'[i].name # calls[s].name
             /\ SelectSeq(mockWorktrees, LAMBDA w : w.name # calls[s].name)
                  = SelectSeq(mockWorktrees', LAMBDA w : w.name # calls[s].name)]_vars

\* C30: in every step of the timeline the index stays within
\* 0..commits.length - 1; a tick at the last commit stops playback and keeps
\* the index; a slider change and a reset stop playback; and a tick while
\* playback is stopped keeps the index.
C30_PlaybackStaysInRange ==
    [][/\ timeline'.index \in 0..(timeline'.commits - 1)
       /\ (timeline'.last = "tick"
             /\ timeline.index = timeline.commits - 1)
          => (~timeline'.playing /\ timeline'.index = timeline.index)
       /\ timeline'.last \in {"slider", "reset"} => ~timeline'.playing
       /\ (timeline'.last = "tick" /\ ~timeline.playing)
          => timeline'.index = timeline.index]_vars

\* C30 witness: a tick at the last commit has stopped playback.
C30_Witness ==
    /\ timeline.last = "tick"
    /\ ~timeline.playing
    /\ timeline.nextTick = Undefined
    /\ timeline.index = timeline.commits - 1

\* The instant of the mount.
Mounted == CHOOSE t \in InitNows : TRUE

\* The instant of the last change of a task of the store: its start while it
\* runs, its end afterwards.
ChangedAt(task) ==
    IF task.status = "running" THEN task.startedAt ELSE task.completedAt

\* The hook's tasks hold the task with its status.
Reflected(task) ==
    \E i \in 1..Len(tasks) :
        tasks[i].id = task.id /\ tasks[i].status = task.status

====
